---- MODULE Spec2Model ----
(***************************************************************************)
(* Model of the Flask expense tracker (src/app.py): the row store          *)
(* (Transaction, Goal, AIInsight), the request handlers index, insights,   *)
(* delete, set_goal and delete_goal, and the helpers they call.            *)
(*                                                                         *)
(* Money is counted in cents.  A float parsed from a form field is         *)
(* [cents, frac]: the value is cents + frac/10 cents, frac in 0..9, so     *)
(* that round(val, 2) is a real rounding step.  Strings that the code      *)
(* formats with an f-string are tuples of their parts.                     *)
(***************************************************************************)
EXTENDS Integers, Sequences, FiniteSets, TLC

VARIABLES
    transactions,   \* rows of table Transaction
    goals,          \* rows of table Goal
    insightRows,    \* rows of table AIInsight
    chartFile,      \* the image files at BAR_CHART_PATH / PIE_CHART_PATH
    now,            \* datetime.utcnow(), in ticks of 12 hours
    inflight,       \* the insights requests being handled, each at its step
    resp            \* what the last step did: the request, its flashes, session
                    \* text and page, the generator and service calls it made

vars == <<transactions, goals, insightRows, chartFile, now, inflight, resp>>

(***************************************************************************)
(* Bounds of the model and constants of the program                        *)
(***************************************************************************)
MaxInsightStore == 4 \* SpecInsights: Transaction rows plus AIInsight rows
MaxLedgerRows == 2   \* SpecLedger: Transaction and Goal rows together
MaxCompareRows == 3  \* SpecCompare: Transaction and Goal rows together
MaxUpsertGoals == 2  \* SpecUpsert: Goal rows
MaxGeneratorTx == 3  \* SpecGenerator: Transaction rows
MaxChartRows == 3    \* SpecCharts: Transaction, Goal and AIInsight rows
MaxInflight == 2     \* insights requests handled at the same time
MaxRaceStore == 3    \* SpecRace: Transaction rows plus AIInsight rows
MaxTime == 2         \* SpecInsights: the clock stops after this many ticks
FRESH_TICKS == 2     \* timedelta(days=1): 24 hours = 2 ticks of 12 hours
MAX_ABS_CENTS == 1000000000   \* max_abs = 1e7 dollars, in cents

Users == {1, 2}
None == "<None>"    \* Python's None: a form field that was not submitted

(***************************************************************************)
(* Python and pandas primitives on the strings the model uses              *)
(***************************************************************************)
\* str.strip()
Strip(s) ==
    CASE s = " Food " -> "Food"
      [] s = "  "     -> ""
      [] OTHER        -> s

\* bool(s) of a form value: None and "" are falsy
Truthy(s) == s # None /\ s # ""

\* float(value_str): the parsed value, or the way parsing ends
PyFloat(s) ==
    CASE s = "0"          -> [kind |-> "num", cents |-> 0, frac |-> 0]
      [] s = "42.50"      -> [kind |-> "num", cents |-> 4250, frac |-> 0]
      [] s = "42.504"     -> [kind |-> "num", cents |-> 4250, frac |-> 4]
      [] s = "74.996"     -> [kind |-> "num", cents |-> 7499, frac |-> 6]
      [] s = "75"         -> [kind |-> "num", cents |-> 7500, frac |-> 0]
      [] s = "50"         -> [kind |-> "num", cents |-> 5000, frac |-> 0]
      [] s = "100"        -> [kind |-> "num", cents |-> 10000, frac |-> 0]
      [] s = "-5"         -> [kind |-> "num", cents |-> -500, frac |-> 0]
      [] s = "-0.001"     -> [kind |-> "num", cents |-> -1, frac |-> 9]
      [] s = "10000000"   -> [kind |-> "num", cents |-> MAX_ABS_CENTS, frac |-> 0]
      [] s = "10000000.004" -> [kind |-> "num", cents |-> MAX_ABS_CENTS, frac |-> 4]
      [] s = "10000001"   -> [kind |-> "num", cents |-> MAX_ABS_CENTS + 100, frac |-> 0]
      [] s = "inf"        -> [kind |-> "inf", cents |-> 0, frac |-> 0]
      [] s = "nan"        -> [kind |-> "nan", cents |-> 0, frac |-> 0]
      [] OTHER            -> [kind |-> "ValueError", cents |-> 0, frac |-> 0]

\* int(s) of an id field of a form
PyInt(s) ==
    CASE s = "1" -> 1
      [] s = "2" -> 2
      [] s = "3" -> 3
      [] s = "4" -> 4
      [] OTHER   -> 0

\* round(val, 2) of a non-negative value, in cents (no input is an exact tie)
Round2(v) == IF v.frac >= 5 THEN v.cents + 1 ELSE v.cents

\* pd.to_datetime(date, errors="coerce").dt.to_period("M").astype(str):
\* an unparseable date is coerced to NaT, and astype(str) turns NaT into
\* the string "NaT"
MonthStr(date) ==
    CASE date = "2024-03-15" -> "2024-03"
      [] date = "2024-04-02" -> "2024-04"
      [] OTHER               -> "NaT"

\* whether the date string parses (pd.to_datetime does not coerce it)
DateParses(date) == date \in {"2024-03-15", "2024-04-02"}

\* Python's order on the month strings ("2" < "N")
StrOrder == <<"2024-03", "2024-04", "NaT">>
StrRank(s) == CHOOSE i \in 1..Len(StrOrder) : StrOrder[i] = s
\* Series.max() of a non-empty series of strings
StrMax(S) == CHOOSE s \in S : \A t \in S : StrRank(t) <= StrRank(s)

\* Python's order on the category strings, as groupby sorts its keys
CatOrder == <<"Food", "Rent">>
CatRank(c) == CHOOSE i \in 1..Len(CatOrder) : CatOrder[i] = c

RECURSIVE SumOf(_)
\* Series.sum() of the Amount column of a set of rows
SumOf(rows) ==
    IF rows = {} THEN 0
    ELSE LET r == CHOOSE x \in rows : TRUE
         IN r.amount + SumOf(rows \ {r})

RECURSIVE SeqById(_)
\* the rows of a query without ORDER BY, in rowid order
SeqById(rows) ==
    IF rows = {} THEN <<>>
    ELSE LET r == CHOOSE x \in rows : \A y \in rows : x.id <= y.id
         IN <<r>> \o SeqById(rows \ {r})

\* the id SQLite gives a new row of an INTEGER PRIMARY KEY table: one more
\* than the largest id in use
NewId(rows) ==
    IF rows = {} THEN 1
    ELSE (CHOOSE i \in {r.id : r \in rows} : \A r \in rows : r.id <= i) + 1

(***************************************************************************)
(* Helpers of src/app.py                                                   *)
(***************************************************************************)
\* _parse_money(value_str, field_label): [ok, val, flash]
_parse_money(value_str, field_label) ==
    LET val == PyFloat(value_str) IN
    IF value_str = None \/ Strip(value_str) = ""
    THEN [ok |-> FALSE, val |-> 0, flash |-> <<<<field_label, "is required.">>>>]
    ELSE IF val.kind = "ValueError"
    THEN [ok |-> FALSE, val |-> 0, flash |-> <<<<field_label, "must be a number.">>>>]
    ELSE IF val.kind \in {"inf", "nan"}
    THEN [ok |-> FALSE, val |-> 0, flash |-> <<<<field_label, "must be a finite number.">>>>]
    ELSE IF val.cents < 0
    THEN [ok |-> FALSE, val |-> 0, flash |-> <<<<field_label, "cannot be negative.">>>>]
    ELSE IF val.cents > MAX_ABS_CENTS \/ (val.cents = MAX_ABS_CENTS /\ val.frac > 0)
    THEN [ok |-> FALSE, val |-> 0, flash |-> <<<<field_label, "is unreasonably large (>10,000,000).">>>>]
    ELSE [ok |-> TRUE, val |-> Round2(val), flash |-> <<>>]

\* Transaction.query.filter_by(user_id=current_user.id).all()
TxOf(u) == {t \in transactions : t.user_id = u}

\* Goal.query.filter_by(user_id=current_user.id).all()
GoalsOf(u) == {g \in goals : g.user_id = u}

\* groupby("Category")["Amount"].sum(): one row per category present
CategoryTotals(df) ==
    {[Category |-> c, Amount |-> SumOf({t \in df : t.category = c})] :
        c \in {t.category : t \in df}}

\* _render_charts(df): the chart files afterwards and the value returned
_render_charts(df) ==
    LET category_totals == CategoryTotals(df) IN
    IF df # {} /\ category_totals # {} /\ SumOf(df) > 0
    THEN [file |-> [exists |-> TRUE, totals |-> category_totals],
          ret  |-> TRUE]
    ELSE [file |-> [exists |-> FALSE, totals |-> {}],
          ret  |-> FALSE]

\* index, "Comparison table": monthly_totals.  df["Month"] holds strings, so
\* dropna(subset=["Month"]) drops nothing; one row per (Month, Category)
MonthlyTotals(df) ==
    {[Month |-> k[1], Category |-> k[2],
      Amount |-> SumOf({t \in df : MonthStr(t.date) = k[1] /\ t.category = k[2]})] :
        k \in {<<MonthStr(t.date), t.category>> : t \in df}}

RECURSIVE MergeInner(_, _)
\* the merge with how="inner": a goal without a matching total is dropped
MergeInner(goal_seq, monthly_totals) ==
    IF goal_seq = <<>> THEN <<>>
    ELSE LET g == Head(goal_seq)
             matches == {m \in monthly_totals :
                            m.Month = g.month /\ m.Category = g.category}
             rows == [i \in 1..Cardinality(matches) |->
                             [GoalId |-> g.id, Month |-> g.month, Category |-> g.category,
                              Goal |-> g.goal,
                              Amount |-> [isna |-> FALSE,
                                          v |-> (CHOOSE m \in matches : TRUE).Amount]]]
         IN rows \o MergeInner(Tail(goal_seq), monthly_totals)

RECURSIVE MergeLeft(_, _)
\* pd.merge(goals_reset, monthly_totals, how="left", on=["Month","Category"]):
\* every left row, once per matching right row, or once with Amount NaN
MergeLeft(goal_seq, monthly_totals) ==
    IF goal_seq = <<>> THEN <<>>
    ELSE LET g == Head(goal_seq)
             matches == {m \in monthly_totals :
                            m.Month = g.month /\ m.Category = g.category}
             rows == IF matches = {}
                     THEN <<[GoalId |-> g.id, Month |-> g.month, Category |-> g.category,
                             Goal |-> g.goal, Amount |-> [isna |-> TRUE, v |-> 0]]>>
                     ELSE [i \in 1..Cardinality(matches) |->
                             [GoalId |-> g.id, Month |-> g.month, Category |-> g.category,
                              Goal |-> g.goal,
                              Amount |-> [isna |-> FALSE,
                                          v |-> (CHOOSE m \in matches : TRUE).Amount]]]
         IN rows \o MergeLeft(Tail(goal_seq), monthly_totals)

\* fillna(0) on one merged Amount
FillNa0(a) == IF a.isna THEN 0 ELSE a.v

\* index, lines 381-401: the comparison table of the page
Comparison(goal_rows, df) ==
    LET merged == MergeLeft(SeqById(goal_rows), MonthlyTotals(df)) IN
    [i \in 1..Len(merged) |->
        LET amount == FillNa0(merged[i].Amount)
            remaining == merged[i].Goal - amount
        IN [GoalId |-> merged[i].GoalId, Month |-> merged[i].Month,
            Category |-> merged[i].Category, Goal |-> merged[i].Goal,
            Amount |-> amount, Remaining |-> remaining,
            Status |-> IF remaining >= 0 THEN "Under Budget" ELSE "Over Budget"]]

(***************************************************************************)
(* The insight generator                                                   *)
(***************************************************************************)
\* what the text-generation service does with one call: it answers, or the
\* SDK raises; "unconfigured" is a missing SDK or OPENAI_API_KEY
ServiceOutcomes ==
    {[cause |-> "ok", content |-> "ai-A"],
     [cause |-> "ok", content |-> "ai-B"],
     [cause |-> "unconfigured", content |-> ""],
     [cause |-> "quota", content |-> ""],
     [cause |-> "rate_limit", content |-> ""],
     [cause |-> "malformed", content |-> ""]}

\* str(e) of the exception the SDK call ends with
ErrorText(cause) ==
    CASE cause = "quota"      -> "Error code: 429 - You exceeded your current quota (insufficient_quota)"
      [] cause = "rate_limit" -> "Error code: 429 - Rate limit reached for requests"
      [] OTHER                -> "list index out of range"

\* needle in text, for the needles the code looks for
Contains(text, needle) ==
    <<text, needle>> \in
        {<<"Error code: 429 - You exceeded your current quota (insufficient_quota)",
           "insufficient_quota">>,
         <<"Error code: 429 - You exceeded your current quota (insufficient_quota)",
           "exceeded your current quota">>,
         <<"ai quota exceeded", "quota exceeded">>}

\* str.lower()
Lower(text) ==
    CASE text = "AI quota exceeded" -> "ai quota exceeded"
      [] text = "OpenAI SDK missing or OPENAI_API_KEY not set."
              -> "openai sdk missing or openai_api_key not set."
      [] OTHER -> text

\* _call_openai without the quota check: every SDK exception is re-raised
_call_openai_reraise(outcome) ==
    IF outcome.cause = "unconfigured"
    THEN [raised |-> "RuntimeError", msg |-> "OpenAI SDK missing or OPENAI_API_KEY not set.",
          content |-> "", called |-> 0]
    ELSE IF outcome.cause = "ok"
    THEN [raised |-> "no", msg |-> "", content |-> Strip(outcome.content), called |-> 1]
    ELSE [raised |-> "Exception", msg |-> ErrorText(outcome.cause),
          content |-> "", called |-> 1]

\* _call_openai(prompt): the text, or the exception raised; called counts the
\* requests sent to the service
_call_openai(outcome) ==
    IF outcome.cause = "unconfigured"
    THEN [raised |-> "RuntimeError", msg |-> "OpenAI SDK missing or OPENAI_API_KEY not set.",
          content |-> "", called |-> 0]
    ELSE IF outcome.cause = "ok"
    THEN [raised |-> "no", msg |-> "", content |-> Strip(outcome.content), called |-> 1]
    ELSE LET err == ErrorText(outcome.cause) IN
         IF Contains(err, "insufficient_quota") \/ Contains(err, "exceeded your current quota")
         THEN [raised |-> "RuntimeError", msg |-> "AI quota exceeded",
               content |-> "", called |-> 1]
         ELSE [raised |-> "Exception", msg |-> err, content |-> "", called |-> 1]

\* _build_spending_summary(df): by_cat.iloc[0], len(by_cat) and total.
\* sort_values("Amount", ascending=False) keeps rows of equal amount in the
\* order of the group keys, so the first row is the greatest amount with the
\* least category
_build_spending_summary(df) ==
    LET by_cat == CategoryTotals(df) IN
    [top |-> CHOOSE x \in by_cat : \A y \in by_cat :
                \/ x.Amount > y.Amount
                \/ (x.Amount = y.Amount /\ CatRank(x.Category) <= CatRank(y.Category)),
     len |-> Cardinality(by_cat),
     total |-> SumOf(df)]

Abs(n) == IF n < 0 THEN -n ELSE n

\* _generate_ai_insights, lines 222-244: the deterministic fallback.  The
\* average is in cents and the percentage in tenths of a percent, rounded as
\* the format does; last_two are the two greatest month strings
Fallback(df) ==
    LET summary == _build_spending_summary(df)
        months == {MonthStr(t.date) : t \in df}
        m2 == StrMax(months)
        m1 == StrMax(months \ {m2})
        s1 == SumOf({t \in df : MonthStr(t.date) = m1})
        s2 == SumOf({t \in df : MonthStr(t.date) = m2})
        delta == s2 - s1
        pct == IF s1 # 0 THEN (Abs(delta) * 1000 + (s1 \div 2)) \div s1 ELSE 0
    IN [src |-> "fallback",
        tip1 |-> <<summary.top.Category, summary.top.Amount>>,
        tip2 |-> (2 * summary.total + summary.len) \div (2 * summary.len),
        tip3 |-> IF Cardinality(months) >= 2
                 THEN <<"Spending is",
                        IF delta > 0 THEN "up" ELSE IF delta < 0 THEN "down" ELSE "flat",
                        pct, "vs", m1>>
                 ELSE <<"Add another month of data to see a trend.">>]

NO_DATA == [src |-> "nodata"]
QUOTA_NOTICE == <<"AI quota exceeded - showing basic insights instead.">>
UNAVAILABLE_NOTICE == <<"AI service unavailable - showing basic insights instead.">>

\* _generate_ai_insights(df): the text, the notices flashed and the number of
\* requests sent to the service
_generate_ai_insights(df, outcome) ==
    IF df = {} \/ SumOf(df) <= 0
    THEN [raised |-> FALSE, text |-> NO_DATA, flashes |-> <<>>, svc |-> 0]
    ELSE LET call == _call_openai(outcome) IN
         IF call.raised = "no"
         THEN [raised |-> FALSE, text |-> [src |-> "service", body |-> call.content],
               flashes |-> <<>>, svc |-> call.called]
         ELSE IF call.raised = "RuntimeError"
         THEN [raised |-> FALSE, text |-> Fallback(df),
               flashes |-> IF Contains(Lower(call.msg), "quota exceeded")
                           THEN <<QUOTA_NOTICE>> ELSE <<UNAVAILABLE_NOTICE>>,
               svc |-> call.called]
         ELSE [raised |-> FALSE, text |-> Fallback(df),
               flashes |-> <<UNAVAILABLE_NOTICE>>, svc |-> call.called]

(***************************************************************************)
(* The response of a request                                               *)
(***************************************************************************)
NoText == [src |-> "none"]
NoPage == [rendered |-> FALSE, has_transactions |-> FALSE, comparisons |-> <<>>]

\* a response that flashes messages and renders no page
Resp(op, u, flashes) ==
    [op |-> op, user |-> u, flashes |-> flashes, text |-> NoText,
     force |-> FALSE, gen |-> 0, svc |-> 0, commit |-> "none", page |-> NoPage]

\* the worker threads that handle insights requests
Workers == 1 .. MaxInflight

\* a worker that handles no request
Idle ==
    [pc |-> "idle", user |-> 0, force |-> FALSE, df |-> {}, month |-> "",
     text |-> NoText, flashes |-> <<>>, gen |-> 0, svc |-> 0]

Init ==
    /\ transactions = {}
    /\ goals = {}
    /\ insightRows = {}
    /\ chartFile = [exists |-> FALSE, totals |-> {}]
    /\ now = 0
    /\ inflight = [w \in Workers |-> Idle]
    /\ resp = Resp("start", 0, <<>>)

(***************************************************************************)
(* index                                                                   *)
(***************************************************************************)
\* index, lines 363-413: load the rows, render the charts, build the table
LoadPage(u) ==
    LET df == TxOf(u)
        charts == _render_charts(df)
    IN /\ chartFile' = charts.file
       /\ resp' = [Resp("index", u, <<>>) EXCEPT
                     !.page = [rendered |-> TRUE,
                               has_transactions |-> charts.ret,
                               comparisons |-> Comparison(GoalsOf(u), df)]]
       /\ UNCHANGED <<transactions, goals, insightRows, now, inflight>>

\* index, POST with a transaction form (lines 335-361); a form without
\* "amount" or "date" falls through to the page
IndexPost(u, form) ==
    IF form.amount # None /\ form.date # None
    THEN LET pm == _parse_money(form.amount, "Amount")
             tx == {t \in transactions : t.id = PyInt(form.edit_index) /\ t.user_id = u}
         IN IF ~pm.ok
            THEN /\ resp' = Resp("index_post", u, pm.flash)
                 /\ UNCHANGED <<transactions, goals, insightRows, chartFile, now, inflight>>
            ELSE IF Truthy(form.edit_index)
            THEN IF tx # {}
                 THEN /\ transactions' =
                            (transactions \ tx) \cup
                            {[t EXCEPT !.date = form.date,
                                       !.description = Strip(form.description),
                                       !.category = Strip(form.category),
                                       !.amount = pm.val] : t \in tx}
                      /\ resp' = Resp("index_post", u, <<<<"Transaction updated successfully!">>>>)
                      /\ UNCHANGED <<goals, insightRows, chartFile, now, inflight>>
                 ELSE /\ resp' = Resp("index_post", u, <<>>)
                      /\ UNCHANGED <<transactions, goals, insightRows, chartFile, now, inflight>>
            ELSE /\ transactions' = transactions \cup
                        {[id |-> NewId(transactions), user_id |-> u, date |-> form.date,
                          description |-> Strip(form.description),
                          category |-> Strip(form.category), amount |-> pm.val]}
                 /\ resp' = Resp("index_post", u, <<<<"Transaction added successfully!">>>>)
                 /\ UNCHANGED <<goals, insightRows, chartFile, now, inflight>>
    ELSE LoadPage(u)

\* index, GET
IndexGet(u) == LoadPage(u)

(***************************************************************************)
(* insights                                                                *)
(***************************************************************************)
\* insights, line 425: the greatest month string of the user's transactions
CurrentMonth(df) == StrMax({MonthStr(t.date) : t \in df})

\* insights, lines 429-430: AIInsight.query.filter_by(user_id, month)
CachedRows(u, month) == {r \in insightRows : r.user_id = u /\ r.month = month}

\* order_by(created_at.desc()).first(): rows inserted within one tick differ
\* in created_at by less than a tick, the later insert having the larger id
Latest(rows) ==
    CHOOSE r \in rows : \A q \in rows :
        \/ q.created_at < r.created_at
        \/ (q.created_at = r.created_at /\ q.id <= r.id)

\* insights, line 433: datetime.utcnow() - cached.created_at < timedelta(days=1)
IsFresh(cached) == now - cached.created_at < FRESH_TICKS

\* a write that replaces the rows of the user and month
CacheWriteReplace(u, month, text, commit_ok) ==
    IF Truthy(month) /\ commit_ok
    THEN (insightRows \ CachedRows(u, month)) \cup
            {[id |-> NewId(insightRows), user_id |-> u, month |-> month,
              text |-> text, created_at |-> now]}
    ELSE insightRows

\* insights, lines 441-446: the table after the best-effort write; a failed
\* commit is rolled back
CacheWrite(u, month, text, commit_ok) ==
    IF Truthy(month) /\ commit_ok
    THEN insightRows \cup
            {[id |-> NewId(insightRows), user_id |-> u, month |-> month,
              text |-> text, created_at |-> now]}
    ELSE insightRows

\* insights (lines 416-449); an exception out of the generator would end the
\* request before the write and the session text
Insights(u, force_field, outcome, commit_ok) ==
    LET df == TxOf(u)
        month == CurrentMonth(df)
        force == force_field = "1"
        rows == CachedRows(u, month)
        generated == _generate_ai_insights(df, outcome)
        asked == [Resp("insights", u, <<>>) EXCEPT !.force = force]
    IN
    /\ IF df = {}
       THEN /\ resp' = [asked EXCEPT !.text = NO_DATA]
            /\ UNCHANGED insightRows
       ELSE IF Truthy(month) /\ ~force /\ rows # {} /\ IsFresh(Latest(rows))
       THEN /\ resp' = [asked EXCEPT !.text = Latest(rows).text]
            /\ UNCHANGED insightRows
       ELSE IF generated.raised
       THEN /\ resp' = [asked EXCEPT !.op = "insights_error", !.gen = 1,
                                     !.svc = generated.svc]
            /\ UNCHANGED insightRows
       ELSE /\ insightRows' = CacheWrite(u, month, generated.text, commit_ok)
            /\ resp' = [asked EXCEPT
                          !.flashes = generated.flashes, !.text = generated.text,
                          !.gen = 1, !.svc = generated.svc,
                          !.commit = IF ~Truthy(month) THEN "none"
                                     ELSE IF commit_ok THEN "ok" ELSE "failed"]
    /\ UNCHANGED <<transactions, goals, chartFile, now, inflight>>

\* insights_json (lines 525-533): the generator without the cache
InsightsJson(u, outcome) ==
    LET generated == _generate_ai_insights(TxOf(u), outcome) IN
    /\ resp' = IF generated.raised
               THEN [Resp("insights_json", u, <<>>) EXCEPT
                        !.text = [src |-> "ERROR"], !.gen = 1, !.svc = generated.svc]
               ELSE [Resp("insights_json", u, generated.flashes) EXCEPT
                        !.text = generated.text, !.gen = 1, !.svc = generated.svc]
    /\ UNCHANGED <<transactions, goals, insightRows, chartFile, now, inflight>>

\* time passes: no request, no response
Tick ==
    /\ now' = now + 1
    /\ resp' = Resp("tick", 0, <<>>)
    /\ UNCHANGED <<transactions, goals, insightRows, chartFile, inflight>>

(***************************************************************************)
(* insights, one database query, service call or commit at a time, as      *)
(* requests handled at the same time interleave                            *)
(***************************************************************************)
\* the response of a finished request (lines 421-422, 434-435, 448-449)
InsightsResponse(req) ==
    [Resp("insights", req.user, req.flashes) EXCEPT
        !.force = req.force, !.text = req.text, !.gen = req.gen, !.svc = req.svc]

\* insights, lines 419-426: load the user's transactions; without any the
\* request ends, otherwise the month and the force flag are worked out.  The
\* request goes to the first worker that is free
InsightsBegin(w, u, force_field) ==
    LET df == TxOf(u)
        req == [Idle EXCEPT !.user = u, !.force = (force_field = "1"), !.df = df]
    IN
    /\ inflight[w].pc = "idle"
    /\ \A v \in Workers : v < w => inflight[v].pc # "idle"
    /\ IF df = {}
       THEN /\ resp' = InsightsResponse([req EXCEPT !.text = NO_DATA])
            /\ UNCHANGED inflight
       ELSE /\ inflight' = [inflight EXCEPT
                              ![w] = [req EXCEPT !.pc = "lookup",
                                                 !.month = CurrentMonth(df)]]
            /\ UNCHANGED resp
    /\ UNCHANGED <<transactions, goals, insightRows, chartFile, now>>

\* insights, lines 428-435: the cache query; a fresh latest row ends the
\* request with its text
InsightsLookup(w) ==
    LET req == inflight[w]
        rows == CachedRows(req.user, req.month)
    IN
    /\ req.pc = "lookup"
    /\ IF Truthy(req.month) /\ ~req.force /\ rows # {} /\ IsFresh(Latest(rows))
       THEN /\ inflight' = [inflight EXCEPT ![w] = Idle]
            /\ resp' = InsightsResponse([req EXCEPT !.text = Latest(rows).text])
       ELSE /\ inflight' = [inflight EXCEPT ![w] = [req EXCEPT !.pc = "generate"]]
            /\ UNCHANGED resp
    /\ UNCHANGED <<transactions, goals, insightRows, chartFile, now>>

\* insights, line 438: the generator, with its call to the service, on the
\* transactions loaded at the start
InsightsGenerate(w, outcome) ==
    LET req == inflight[w]
        generated == _generate_ai_insights(req.df, outcome)
    IN
    /\ req.pc = "generate"
    /\ inflight' = [inflight EXCEPT
                      ![w] = [req EXCEPT !.pc = "write", !.text = generated.text,
                                         !.flashes = generated.flashes,
                                         !.gen = 1, !.svc = generated.svc]]
    /\ UNCHANGED <<transactions, goals, insightRows, chartFile, now, resp>>

\* insights, lines 441-449: the best-effort write in one commit, then the
\* session text and the redirect
InsightsWrite(w, commit_ok) ==
    LET req == inflight[w] IN
    /\ req.pc = "write"
    /\ insightRows' = CacheWrite(req.user, req.month, req.text, commit_ok)
    /\ inflight' = [inflight EXCEPT ![w] = Idle]
    /\ resp' = [InsightsResponse(req) EXCEPT
                  !.commit = IF ~Truthy(req.month) THEN "none"
                             ELSE IF commit_ok THEN "ok" ELSE "failed"]
    /\ UNCHANGED <<transactions, goals, chartFile, now>>

(***************************************************************************)
(* delete, set_goal, delete_goal                                           *)
(***************************************************************************)
\* delete (lines 455-466)
Delete(u, id) ==
    LET tx_id == PyInt(id)
        tx == {t \in transactions : t.id = tx_id /\ t.user_id = u} IN
    /\ IF tx # {}
       THEN /\ transactions' = transactions \ tx
            /\ resp' = Resp("delete", u, <<<<"Transaction deleted successfully!">>>>)
       ELSE /\ resp' = Resp("delete", u, <<<<"Invalid transaction id.">>>>)
            /\ UNCHANGED transactions
    /\ UNCHANGED <<goals, insightRows, chartFile, now, inflight>>

\* a lookup by month alone
GoalByMonth(u, goal_month, goal_category) ==
    {g \in goals : g.user_id = u /\ g.month = goal_month}

\* set_goal, line 494: the rows of the user with this month and category
GoalByKey(u, goal_month, goal_category) ==
    {g \in goals : g.user_id = u /\ g.month = goal_month
                    /\ g.category = goal_category}

\* set_goal (lines 469-501)
SetGoal(u, form) ==
    LET goal_month == form.goal_month
        goal_category == Strip(form.goal_category)
        pm == _parse_money(form.goal_amount, "Goal Amount")
        byId == {g \in goals : g.id = PyInt(form.goal_edit_index) /\ g.user_id = u}
        byKey == GoalByKey(u, goal_month, goal_category)
        \* Query.first(): one of the matching rows
        first == CHOOSE g \in byKey : \A h \in byKey : g.id <= h.id
    IN
    /\ IF ~pm.ok
       THEN /\ resp' = Resp("set_goal", u, pm.flash)
            /\ UNCHANGED goals
       ELSE IF Truthy(form.goal_edit_index)
       THEN IF byId # {}
            THEN /\ goals' = (goals \ byId) \cup
                        {[g EXCEPT !.month = goal_month, !.category = goal_category,
                                   !.goal = pm.val] : g \in byId}
                 /\ resp' = Resp("set_goal", u, <<<<"Goal updated successfully!">>>>)
            ELSE /\ resp' = Resp("set_goal", u, <<<<"Invalid goal id.">>>>)
                 /\ UNCHANGED goals
       ELSE IF byKey # {}
            THEN /\ goals' = (goals \ {first}) \cup {[first EXCEPT !.goal = pm.val]}
                 /\ resp' = Resp("set_goal", u, <<<<"Goal saved successfully!">>>>)
            ELSE /\ goals' = goals \cup
                        {[id |-> NewId(goals), user_id |-> u, month |-> goal_month,
                          category |-> goal_category, goal |-> pm.val]}
                 /\ resp' = Resp("set_goal", u, <<<<"Goal saved successfully!">>>>)
    /\ UNCHANGED <<transactions, insightRows, chartFile, now, inflight>>

\* delete_goal (lines 504-515)
DeleteGoal(u, id) ==
    LET goal_id == PyInt(id)
        g == {x \in goals : x.id = goal_id /\ x.user_id = u} IN
    /\ IF g # {}
       THEN /\ goals' = goals \ g
            /\ resp' = Resp("delete_goal", u, <<<<"Goal deleted successfully!">>>>)
       ELSE /\ resp' = Resp("delete_goal", u, <<<<"Invalid goal id.">>>>)
            /\ UNCHANGED goals
    /\ UNCHANGED <<transactions, insightRows, chartFile, now, inflight>>

TxForm(amount, date, category) ==
    [amount |-> amount, date |-> date, description |-> " lunch",
     category |-> category, edit_index |-> None]

GoalForm(month, category, amount, edit_index) ==
    [goal_month |-> month, goal_category |-> category, goal_amount |-> amount,
     goal_edit_index |-> edit_index]

\* the bound of a specification on the rows a request may leave in the store
RowsWithin(n) == Cardinality(transactions') + Cardinality(goals') <= n

(***************************************************************************)
(* The ledger requests with every kind of money field and of row id:      *)
(* one date and one category, both users                                   *)
(***************************************************************************)
IdInputs == {"1", "2", "3"}
BadMoney == {None, "  ", "abc", "inf", "nan", "-5", "-0.001", "10000001", "10000000.004"}

LedgerTxForms ==
    [amount : {"42.504", "75"} \cup BadMoney, date : {"2024-03-15"},
     description : {" lunch"}, category : {" Food "},
     edit_index : {None} \cup IdInputs]

LedgerGoalForms ==
    [goal_month : {"2024-03"}, goal_category : {" Food "},
     goal_amount : {"100", "10000000"} \cup BadMoney,
     goal_edit_index : {None} \cup IdInputs]

LedgerIndexPost ==
    \E u \in Users, form \in LedgerTxForms :
        IndexPost(u, form) /\ RowsWithin(MaxLedgerRows)
LedgerDelete == \E u \in Users, id \in IdInputs : Delete(u, id)
LedgerSetGoal ==
    \E u \in Users, form \in LedgerGoalForms :
        SetGoal(u, form) /\ RowsWithin(MaxLedgerRows)
LedgerDeleteGoal == \E u \in Users, id \in IdInputs : DeleteGoal(u, id)

NextLedger == LedgerIndexPost \/ LedgerDelete \/ LedgerSetGoal \/ LedgerDeleteGoal
SpecLedger == Init /\ [][NextLedger]_vars

(***************************************************************************)
(* The page of a user with goals and transactions in several months and    *)
(* categories; the second user submits one form of each kind               *)
(***************************************************************************)
Dates == {"2024-03-15", "2024-04-02", "not-a-date"}

CompareTxForms(u) ==
    IF u = 1
    THEN {TxForm("42.504", "2024-03-15", " Food "),
          TxForm("75", "2024-03-15", " Food "),
          TxForm("75", "2024-03-15", "Rent"),
          TxForm("75", "2024-04-02", " Food "),
          TxForm("42.504", "not-a-date", " Food "),
          TxForm("75", "not-a-date", "Rent")}
    ELSE {TxForm("75", "2024-03-15", " Food ")}

CompareGoalForms(u) ==
    IF u = 1
    THEN {GoalForm("2024-03", " Food ", "100", None),
          GoalForm("2024-03", " Food ", "50", None),
          GoalForm("2024-03", "Rent", "50", None),
          GoalForm("NaT", " Food ", "100", None),
          GoalForm("2024-03", " Food ", "50", "2")}
    ELSE {GoalForm("2024-03", " Food ", "50", None)}

CompareIndexPost ==
    \E u \in Users : \E form \in CompareTxForms(u) :
        IndexPost(u, form) /\ RowsWithin(MaxCompareRows)
CompareSetGoal ==
    \E u \in Users : \E form \in CompareGoalForms(u) :
        SetGoal(u, form) /\ RowsWithin(MaxCompareRows)
CompareIndexGet == \E u \in Users : IndexGet(u)

NextCompare == CompareIndexPost \/ CompareSetGoal \/ CompareIndexGet
SpecCompare == Init /\ [][NextCompare]_vars

(***************************************************************************)
(* Goals saved by key and deleted, never edited by id                      *)
(***************************************************************************)
UpsertGoalForms(u) ==
    IF u = 1
    THEN [goal_month : {"2024-03", "2024-04"}, goal_category : {"Food", " Food ", "Rent"},
          goal_amount : {"100", "50"}, goal_edit_index : {None}]
         \cup {GoalForm("2024-03", "Rent", "abc", None),
               GoalForm("2024-03", "Rent", "50", "")}
    ELSE {GoalForm("2024-03", " Food ", "100", None),
          GoalForm("2024-03", " Food ", "50", None)}

UpsertSetGoal ==
    \E u \in Users : \E form \in UpsertGoalForms(u) :
        SetGoal(u, form) /\ RowsWithin(MaxUpsertGoals)
UpsertDeleteGoal == \E u \in Users, id \in IdInputs : DeleteGoal(u, id)

NextUpsert == UpsertSetGoal \/ UpsertDeleteGoal
SpecUpsert == Init /\ [][NextUpsert]_vars

(***************************************************************************)
(* Insights requests as time passes and transactions are added             *)
(***************************************************************************)
InsightTxForms(u) ==
    IF u = 1
    THEN {TxForm("42.504", "2024-03-15", " Food "),
          TxForm("75", "2024-04-02", "Rent"),
          TxForm("75", "not-a-date", " Food ")}
    ELSE {TxForm("75", "2024-03-15", " Food ")}

\* the service answers one of two texts; the second user asks without force
InsightRequests(u) ==
    IF u = 1
    THEN [force_field : {None, "1"},
          outcome : {o \in ServiceOutcomes : o.cause = "ok"},
          commit_ok : BOOLEAN]
    ELSE [force_field : {None}, outcome : {[cause |-> "ok", content |-> "ai-A"]},
          commit_ok : {TRUE}]

InsightStoreWithin(n) ==
    Cardinality(transactions') + Cardinality(insightRows') <= n

InsightsIndexPost ==
    \E u \in Users : \E form \in InsightTxForms(u) :
        IndexPost(u, form) /\ InsightStoreWithin(MaxInsightStore)
InsightsRequest ==
    \E u \in Users : \E req \in InsightRequests(u) :
        Insights(u, req.force_field, req.outcome, req.commit_ok)
            /\ InsightStoreWithin(MaxInsightStore)
InsightsTick == now < MaxTime /\ Tick

NextInsights == InsightsIndexPost \/ InsightsRequest \/ InsightsTick
SpecInsights == Init /\ [][NextInsights]_vars

(***************************************************************************)
(* The generator under every outcome of the service call                   *)
(***************************************************************************)
GeneratorTxForms ==
    {TxForm("0", "2024-03-15", " Food "),
     TxForm("100", "2024-03-15", " Food "),
     TxForm("50", "2024-04-02", "Rent"),
     TxForm("75", "2024-04-02", " Food "),
     TxForm("42.504", "not-a-date", "Rent")}

GeneratorIndexPost ==
    \E form \in GeneratorTxForms :
        IndexPost(1, form) /\ Cardinality(transactions') <= MaxGeneratorTx
GeneratorInsightsJson ==
    \E u \in Users, outcome \in ServiceOutcomes : InsightsJson(u, outcome)
GeneratorInsights ==
    \E outcome \in ServiceOutcomes :
        Insights(1, "1", outcome, FALSE)

NextGenerator == GeneratorIndexPost \/ GeneratorInsightsJson \/ GeneratorInsights
SpecGenerator == Init /\ [][NextGenerator]_vars

(***************************************************************************)
(* Two users loading their pages between their other requests              *)
(***************************************************************************)
ChartTxForms(u) ==
    IF u = 1
    THEN {TxForm("42.50", "2024-03-15", " Food "), TxForm("0", "2024-03-15", "Rent")}
    ELSE {TxForm("75", "2024-04-02", "Rent")}

ChartGoalForms(u) == {GoalForm("2024-03", " Food ", "100", None)}

ChartRowsWithin(n) ==
    Cardinality(transactions') + Cardinality(goals') + Cardinality(insightRows') <= n

ChartsIndexPost ==
    \E u \in Users : \E form \in ChartTxForms(u) :
        IndexPost(u, form) /\ ChartRowsWithin(MaxChartRows)
ChartsIndexGet == \E u \in Users : IndexGet(u)
ChartsDelete == \E u \in Users, id \in IdInputs : Delete(u, id)
ChartsSetGoal ==
    \E u \in Users : \E form \in ChartGoalForms(u) :
        SetGoal(u, form) /\ ChartRowsWithin(MaxChartRows)
ChartsInsights ==
    \E u \in Users :
        Insights(u, None, [cause |-> "ok", content |-> "ai-A"], TRUE)
            /\ ChartRowsWithin(MaxChartRows)

NextCharts ==
    ChartsIndexPost \/ ChartsIndexGet \/ ChartsDelete \/ ChartsSetGoal \/ ChartsInsights
SpecCharts == Init /\ [][NextCharts]_vars

(***************************************************************************)
(* Insights requests handled at the same time                              *)
(***************************************************************************)
RaceTxForms ==
    {TxForm("42.50", "2024-03-15", " Food "), TxForm("75", "not-a-date", " Food ")}

RaceStoreWithin(n) ==
    Cardinality(transactions') + Cardinality(insightRows') <= n

RaceIndexPost ==
    \E form \in RaceTxForms :
        IndexPost(1, form) /\ RaceStoreWithin(MaxRaceStore)
RaceBegin ==
    \E w \in Workers, u \in Users : InsightsBegin(w, u, None)
RaceLookup == \E w \in Workers : InsightsLookup(w)
RaceGenerate ==
    \E w \in Workers :
        \E outcome \in {o \in ServiceOutcomes : o.cause = "ok"} :
            InsightsGenerate(w, outcome)
RaceWrite ==
    \E w \in Workers, commit_ok \in BOOLEAN :
        InsightsWrite(w, commit_ok) /\ RaceStoreWithin(MaxRaceStore)

NextRace ==
    RaceIndexPost \/ RaceBegin \/ RaceLookup \/ RaceGenerate \/ RaceWrite
SpecRace == Init /\ [][NextRace]_vars

(***************************************************************************)
(* Claims about the ledger requests                                        *)
(***************************************************************************)
\* a money field that is missing, blank, non-numeric, non-finite, negative
\* or greater than 10,000,000
InvalidMoney(value_str) ==
    \/ value_str = None
    \/ Strip(value_str) = ""
    \/ PyFloat(value_str).kind \in {"ValueError", "inf", "nan"}
    \/ PyFloat(value_str).cents < 0
    \/ PyFloat(value_str).cents > MAX_ABS_CENTS
    \/ (PyFloat(value_str).cents = MAX_ABS_CENTS /\ PyFloat(value_str).frac > 0)

\* every stored amount is within 0 .. 10,000,000
AmountsInRange ==
    /\ \A t \in transactions : 0 <= t.amount /\ t.amount <= MAX_ABS_CENTS
    /\ \A g \in goals : 0 <= g.goal /\ g.goal <= MAX_ABS_CENTS

\* C4: a transaction create/update or a goal create/update whose money field
\* is missing, blank, non-numeric, non-finite, negative or above 10,000,000
\* flashes a validation message and leaves the stored Transactions and Goals
\* as they were; every stored amount is within 0 .. 10,000,000.
C4_InvalidMoneyRejectedWithMessage ==
    /\ []AmountsInRange
    /\ [][\A u \in Users :
            /\ \A form \in LedgerTxForms :
                 (InvalidMoney(form.amount) /\ IndexPost(u, form))
                    => (UNCHANGED <<transactions, goals>> /\ resp'.flashes # <<>>)
            /\ \A form \in LedgerGoalForms :
                 (InvalidMoney(form.goal_amount) /\ SetGoal(u, form))
                    => (UNCHANGED <<transactions, goals>> /\ resp'.flashes # <<>>)]_vars

\* whether user u owns a row of the table with this id
Owns(rows, u, id) == \E r \in rows : r.id = PyInt(id) /\ r.user_id = u

\* C5: editing or deleting a Transaction or a Goal by an id that does not
\* exist or belongs to another user changes no Transaction or Goal row and
\* gives the requester a message, in each of the four operations.
C5_ForeignOrMissingIdIsNoOpWithMessage ==
    [][\A u \in Users :
        /\ \A form \in LedgerTxForms :
             (/\ ~InvalidMoney(form.amount) /\ Truthy(form.edit_index)
              /\ ~Owns(transactions, u, form.edit_index) /\ IndexPost(u, form))
                => (UNCHANGED <<transactions, goals>> /\ resp'.flashes # <<>>)
        /\ \A id \in IdInputs :
             (~Owns(transactions, u, id) /\ Delete(u, id))
                => (UNCHANGED <<transactions, goals>> /\ resp'.flashes # <<>>)
        /\ \A form \in LedgerGoalForms :
             (/\ ~InvalidMoney(form.goal_amount) /\ Truthy(form.goal_edit_index)
              /\ ~Owns(goals, u, form.goal_edit_index) /\ SetGoal(u, form))
                => (UNCHANGED <<transactions, goals>> /\ resp'.flashes # <<>>)
        /\ \A id \in IdInputs :
             (~Owns(goals, u, id) /\ DeleteGoal(u, id))
                => (UNCHANGED <<transactions, goals>> /\ resp'.flashes # <<>>)]_vars

(***************************************************************************)
(* Claims about the comparison table                                       *)
(***************************************************************************)
\* the rows of the page the last request rendered
PageRows == resp.page.comparisons

\* the total spent by user u in the month and category of goal g: the sum over
\* the transactions the aggregation puts in that group, 0 if there are none
ActualFor(u, g) ==
    SumOf({t \in TxOf(u) : MonthStr(t.date) = g.month /\ t.category = g.category})

\* C3: the comparison table of the index page is a left join anchored on
\* goals: exactly one row per Goal of the user and no other row; in each row
\* actual is the aggregated total of the goal's (month, category), or 0 when
\* there is none; remaining = goal - actual; status is Under Budget if and only
\* if remaining >= 0, otherwise Over Budget.
C3_ComparisonIsLeftJoinOnGoals ==
    resp.page.rendered =>
        LET u == resp.user IN
        /\ Len(PageRows) = Cardinality(GoalsOf(u))
        /\ \A g \in GoalsOf(u) :
             \E i \in 1..Len(PageRows) :
                /\ PageRows[i].GoalId = g.id
                /\ PageRows[i].Month = g.month
                /\ PageRows[i].Category = g.category
                /\ PageRows[i].Goal = g.goal
                /\ PageRows[i].Amount = ActualFor(u, g)
                /\ PageRows[i].Remaining = g.goal - ActualFor(u, g)
        /\ \A i \in 1..Len(PageRows) :
             /\ \E g \in GoalsOf(u) : g.id = PageRows[i].GoalId
             /\ PageRows[i].Status \in {"Under Budget", "Over Budget"}
             /\ PageRows[i].Status = "Under Budget" <=> PageRows[i].Remaining >= 0

\* a page with the row goal 100.00, actual 42.50, remaining 57.50, Under
\* Budget, beside transactions of the user that have no goal
C3_Witness ==
    /\ resp.page.rendered
    /\ \E i \in 1..Len(PageRows) :
         /\ PageRows[i].Goal = 10000 /\ PageRows[i].Amount = 4250
         /\ PageRows[i].Remaining = 5750 /\ PageRows[i].Status = "Under Budget"
    /\ \E t \in TxOf(resp.user) :
         \A g \in GoalsOf(resp.user) :
            ~(g.month = MonthStr(t.date) /\ g.category = t.category)

\* C8: the monthly totals of the page hold, for each (month, category), a
\* non-negative amount equal to the sum of the transactions whose date parses
\* to that month and whose category is that category; a transaction with an
\* unparseable date contributes to no group and no group is created for it;
\* no transactions give no groups.
C8_TotalsOnlyFromParsedDates ==
    resp.page.rendered =>
        LET df == TxOf(resp.user)
            monthly_totals == MonthlyTotals(df)
            contributing(m, c) ==
                {t \in df : DateParses(t.date) /\ MonthStr(t.date) = m /\ t.category = c}
        IN /\ \A r \in monthly_totals :
                /\ r.Amount >= 0
                /\ r.Amount = SumOf(contributing(r.Month, r.Category))
                /\ contributing(r.Month, r.Category) # {}
           /\ \A t \in df :
                DateParses(t.date) =>
                    \E r \in monthly_totals :
                        r.Month = MonthStr(t.date) /\ r.Category = t.category
           /\ \A r1, r2 \in monthly_totals :
                (r1.Month = r2.Month /\ r1.Category = r2.Category) => r1 = r2
           /\ (df = {} => monthly_totals = {})

(***************************************************************************)
(* Claims about goals saved by key                                         *)
(***************************************************************************)
\* no two Goal rows with the same (user, month, category)
GoalKeysUnique ==
    \A g, h \in goals :
        (g.user_id = h.user_id /\ g.month = h.month /\ g.category = h.category)
            => g = h

\* what saving by key does: an existing key keeps its row and gets the new
\* amount, a new key adds one row, and every other row stays as it was
SavedByKey(u, form) ==
    LET old == {g \in goals : g.user_id = u /\ g.month = form.goal_month
                               /\ g.category = Strip(form.goal_category)}
        amount == Round2(PyFloat(form.goal_amount))
    IN IF old # {}
       THEN goals' = (goals \ old) \cup {[g EXCEPT !.goal = amount] : g \in old}
       ELSE /\ Cardinality(goals') = Cardinality(goals) + 1
            /\ goals \subseteq goals'
            /\ \A g \in goals' \ goals :
                 /\ g.user_id = u /\ g.month = form.goal_month
                 /\ g.category = Strip(form.goal_category) /\ g.goal = amount

\* C6: with goals saved by key only (no edit by id) and goals deleted, the
\* store never holds two Goal rows with the same (user, month, category);
\* saving for an existing key only overwrites that row's goal amount, and
\* saving for a new key adds exactly one row.
C6_GoalsUniqueUnderUpsert ==
    /\ []GoalKeysUnique
    /\ [][\A u \in Users : \A form \in UpsertGoalForms(u) :
            (/\ resp'.op = "set_goal" /\ resp'.user = u
             /\ ~InvalidMoney(form.goal_amount) /\ SetGoal(u, form))
                => SavedByKey(u, form)]_vars

\* a save has left one user with two goals of the same month
C6_Witness ==
    /\ resp.op = "set_goal"
    /\ resp.flashes = <<<<"Goal saved successfully!">>>>
    /\ \E g, h \in GoalsOf(resp.user) :
         g.id # h.id /\ g.month = h.month /\ g.category # h.category

(***************************************************************************)
(* Claims about the insights cache                                         *)
(***************************************************************************)
\* the maximum month present across the transactions; a date that does not
\* parse has no month
MaxMonthPresent(df) ==
    LET months == {MonthStr(t.date) : t \in {x \in df : DateParses(x.date)}} IN
    IF months = {} THEN None ELSE StrMax(months)

\* the cached rows for (user, month)
RowsFor(u, month) == {r \in insightRows : r.user_id = u /\ r.month = month}

\* the most recent row for (user, month) was created less than 24 hours ago
FreshRowFor(u, month) ==
    /\ RowsFor(u, month) # {}
    /\ now - Latest(RowsFor(u, month)).created_at < FRESH_TICKS

\* the step is an insights request of user u on a non-empty transaction set
InsightsStepOf(u) == resp'.op = "insights" /\ resp'.user = u /\ TxOf(u) # {}

\* C1: an insights request on a non-empty transaction set that does not force
\* a refresh, made while the most recent cached row for (user, current month)
\* is less than 24 hours old, returns that row's text without invoking the
\* generator or the service (so a second request in the window repeats the
\* first one's text); a request with force=1 invokes the generator again.
C1_FreshRowIsReturnedUnlessForced ==
    [][\A u \in Users :
        (InsightsStepOf(u) /\ FreshRowFor(u, MaxMonthPresent(TxOf(u))))
            => IF resp'.force
               THEN resp'.gen = 1
               ELSE /\ resp'.text = Latest(RowsFor(u, MaxMonthPresent(TxOf(u)))).text
                    /\ resp'.gen = 0
                    /\ resp'.svc = 0]_vars

\* the texts the generator can return for the transactions
GeneratedTexts(df) == {_generate_ai_insights(df, o).text : o \in ServiceOutcomes}

\* C2: on a miss, an expired latest row or a forced refresh the insights
\* request invokes the generator once and tries to add one row for
\* (user, month) holding the generated text; a failed write leaves the rows
\* as they were, and the generated text is returned either way.
C2_MissGeneratesOnceAndWritesBestEffort ==
    [][\A u \in Users :
        (/\ InsightsStepOf(u)
         /\ MaxMonthPresent(TxOf(u)) # None
         /\ (resp'.force \/ ~FreshRowFor(u, MaxMonthPresent(TxOf(u)))))
            => /\ resp'.gen = 1
               /\ resp'.text \in GeneratedTexts(TxOf(u))
               /\ resp'.commit \in {"ok", "failed"}
               /\ resp'.commit = "failed" => insightRows' = insightRows
               /\ resp'.commit = "ok" =>
                    \E r \in insightRows' \ insightRows :
                        /\ insightRows' = insightRows \cup {r}
                        /\ r.user_id = u
                        /\ r.month = MaxMonthPresent(TxOf(u))
                        /\ r.text = resp'.text]_vars

\* C9: the insights request caches under the maximum month present across
\* the user's transactions; when no transaction has a valid date no row is
\* looked up or written and every request invokes the generator.
C9_NoMonthSkipsTheCache ==
    [][\A u \in Users :
        InsightsStepOf(u)
            => /\ \A r \in insightRows' \ insightRows :
                    r.month = MaxMonthPresent(TxOf(u))
               /\ MaxMonthPresent(TxOf(u)) = None
                    => (resp'.gen = 1 /\ insightRows' = insightRows)]_vars

(***************************************************************************)
(* Claims about the generator                                              *)
(***************************************************************************)
\* the step runs the generator for user u under the outcome, by either route
GeneratorStep(u, outcome) ==
    InsightsJson(u, outcome) \/ Insights(u, "1", outcome, FALSE)

\* what every generator call on spending data returns: the service's text
\* without a notice, or the fallback with the quota notice for the failures
\* in quota_causes and the generic notice for the others
GeneratorContract(quota_causes) ==
    \A u \in Users, outcome \in ServiceOutcomes :
        (GeneratorStep(u, outcome) /\ SumOf(TxOf(u)) > 0)
            => /\ resp'.op \in {"insights_json", "insights"}
               /\ resp'.text.src # "ERROR"
               /\ resp'.gen = 1
               /\ IF outcome.cause = "ok"
                  THEN /\ resp'.text = [src |-> "service", body |-> Strip(outcome.content)]
                       /\ resp'.flashes = <<>>
                  ELSE /\ resp'.text = Fallback(TxOf(u))
                       /\ resp'.flashes =
                            IF outcome.cause \in quota_causes
                            THEN <<QUOTA_NOTICE>> ELSE <<UNAVAILABLE_NOTICE>>

\* C7 as stated: on spending data a failed service call is never propagated;
\* a quota or rate-limit failure gives the fallback text with the quota
\* notice, every other failure the fallback text with the generic notice,
\* and a successful call the service's text without a notice.
C7_QuotaOrRateLimitGetsQuotaNotice ==
    [][GeneratorContract({"quota", "rate_limit"})]_vars

\* C7 amended: as above, with the quota notice exactly for a failure whose
\* error text reports the quota exhausted; a rate-limit error that does not
\* gets the generic notice like every other failure.
C7_FailureGivesFallbackAndNotice ==
    [][GeneratorContract({"quota"})]_vars

\* a quota failure has been answered with the fallback and the quota notice
C7_Witness ==
    /\ resp.op = "insights_json"
    /\ resp.flashes = <<QUOTA_NOTICE>>
    /\ SumOf(TxOf(resp.user)) > 0
    /\ resp.text = Fallback(TxOf(resp.user))
    /\ resp.svc = 1

(***************************************************************************)
(* Claims about the independence of users                                  *)
(***************************************************************************)
\* the chart files hold the chart of u's transactions
ChartShows(u) == chartFile.exists /\ chartFile = _render_charts(TxOf(u)).file

\* C10: a request of one user leaves everything another user reads as it
\* was: the other user's transactions, goals and cached insights, and the
\* chart files while they hold the other user's chart.
C10_RequestsOfOtherUsersChangeNothing ==
    [][\A u \in Users :
        resp'.user \notin {u, 0}
            => /\ {t \in transactions' : t.user_id = u} = TxOf(u)
               /\ {g \in goals' : g.user_id = u} = GoalsOf(u)
               /\ {r \in insightRows' : r.user_id = u}
                    = {r \in insightRows : r.user_id = u}
               /\ ChartShows(u) => chartFile' = chartFile]_vars

(***************************************************************************)
(* Claims about insights requests handled at the same time                 *)
(***************************************************************************)
\* the texts of the user's cached rows that are valid: the most recent row
\* of its (user, month), created less than 24 hours ago
ValidCachedTexts(u) ==
    {q.text : q \in {r \in insightRows :
                        /\ r.user_id = u
                        /\ r = Latest(RowsFor(u, r.month))
                        /\ now - r.created_at < FRESH_TICKS}}

\* worker w ends its request in this step, from the step at
Finishes(w, at) == inflight[w].pc = at /\ inflight'[w].pc = "idle"

\* C11: insights requests of one user are not serialized.  In every
\* interleaving no step replaces or removes a cached row; a request that
\* missed the cache calls the service, returns the text it generated and, its
\* write succeeding, adds exactly one row for its (user, month) beside the
\* rows written meanwhile; a request that ends at the cache returns a valid
\* cached text.  (The interleaving in which two requests both miss, both
\* call the service and both write is C11_Witness.)
C11_RacingRequestsAddRowsAndReturnTheirText ==
    [][/\ insightRows \subseteq insightRows'
       /\ \A w \in Workers :
            /\ (inflight[w].pc = "generate" /\ inflight'[w].pc = "write")
                  => (inflight'[w].gen = 1 /\ inflight'[w].svc = 1)
            /\ Finishes(w, "write")
                  => /\ resp'.text = inflight[w].text
                     /\ resp'.text \in GeneratedTexts(inflight[w].df)
                     /\ resp'.gen = 1
                     /\ IF resp'.commit = "ok"
                        THEN \E r \in insightRows' \ insightRows :
                                /\ insightRows' = insightRows \cup {r}
                                /\ r.user_id = inflight[w].user
                                /\ r.month = inflight[w].month
                                /\ r.text = inflight[w].text
                        ELSE insightRows' = insightRows
            /\ Finishes(w, "lookup")
                  => /\ resp'.text \in ValidCachedTexts(inflight[w].user)
                     /\ resp'.gen = 0
                     /\ resp'.svc = 0
                     /\ insightRows' = insightRows]_vars

\* two requests without force have both missed the cache, both called the
\* service and both written: two rows for the same (user, month), the second
\* beside the first, each holding the text its request generated
C11_Witness ==
    /\ resp.op = "insights" /\ ~resp.force
    /\ resp.gen = 1 /\ resp.svc = 1 /\ resp.commit = "ok"
    /\ \E r1, r2 \in insightRows :
          /\ r1.id < r2.id
          /\ r1.user_id = resp.user /\ r2.user_id = resp.user
          /\ r1.month = "2024-03" /\ r2.month = "2024-03"
          /\ r1.created_at = r2.created_at
          /\ r1.text # r2.text
          /\ r2.text = resp.text


====
